---- MODULE Spec2Model ----
(***************************************************************************)
(* Model of the telemetry core of txAdmin:                                 *)
(*   - Stopwatch and HealthEventMonitor (src/unnamed/part_000)             *)
(*   - PerformanceCollector (src/core/components/DiscordBot/               *)
(*     interactionCreateHandler.ts, second half of the file)               *)
(* Time is the value of Date.now() in milliseconds; the clock is taken to  *)
(* be monotonic and advances in steps of StepMs.                           *)
(***************************************************************************)
EXTENDS Integers, Sequences, FiniteSets, TLC

\* ------------------------------------------------------------------ bounds
StepMs == 500
StartMs == 1000
MaxTicks == 7
MaxLimit == 2
MaxPerfTicks == 1
MaxLog == 3
MaxWrites == 2
MaxCount == 3
MaxFxs == 1
MaxSnaps == 37
MaxOther == 1

\* ------------------------------------------------------- program constants
MsPerSec == 1000
Infinity == 1000000000
STATS_DATA_FILE_VERSION == 1
minSnapshots == 36
SCAN_WINDOW_MS == 6 * 60 * 60 * 1000
\* ./statsConfigs and ./statsLogOptimizer are not part of the sources at hand:
\* the values are scaled to the clock of the model
PERF_DATA_MIN_TICKS == 2
PERF_DATA_INITIAL_RESOLUTION == 500
RETENTION_MS == 500

\* optional values: null / undefined is <<>>, a present value v is <<v>>
None == <<>>
Some(v) == <<v>>
IsSome(o) == o # <<>>
Val(o) == o[1]

VARIABLES
    now,                \* Date.now()
    \* ---- HealthEventMonitor
    delayLimit,         \* constructor argument
    fatalLimit,         \* constructor argument
    swLastHealthyEvent, \* the monitor's Stopwatch
    firstHealthyEvent,  \* number | undefined
    \* ---- a free-standing Stopwatch
    sw,
    \* ---- observations of the calls made (not program state)
    monOp,              \* the last call made on the monitor / stopwatch
    seenHealthy,        \* markHealthy() was called since the last reset()
    lastMarkAt,         \* time of the last markHealthy()
    firstMarkAt,        \* time of the first markHealthy() since the last reset()
    preResetMarkAt,     \* time of the first markHealthy() before the last reset()
    swStartAt,          \* time at which sw was last (re)started, if running
    swEverStarted       \* sw was started at least once

VARIABLES
    \* ---- PerformanceCollector
    statsLog,           \* SSLogType
    lastFxsMemory,      \* number | undefined
    lastNodeMemory,     \* { used, total } | undefined
    lastPerfBoundaries, \* SSPerfBoundariesType | undefined
    lastPerfCounts,     \* SSPerfCountsType | undefined
    lastPerfSaved,      \* { ts, counts } | undefined
    \* ---- the event loop and the file system
    file,               \* what statsDataPath holds
    writes,             \* fsp.writeFile calls in progress: the documents being written,
                        \* in the order of the calls
    loadPc,             \* loadStatsHistory: "reading" until fsp.readFile settles
    collectPc,          \* collectStats: "fetching" while Promise.allSettled is pending
    sched,              \* "eager": every write succeeds before anything else runs;
                        \* "any": a write settles, or fails, at any later time
    \* ---- observations of the calls made (not program state)
    perfOp,             \* the last step that was no immediate return, and how it ended
    cycMem,             \* what fetchFxsMemory returned to the cycle resumed last
    logBeforeBoot,      \* the log before the logServerBoot call made last
    appended,           \* the DataEvent pushed by the step taken last, if it pushed one
    summary,            \* what getServerPerfSummary() returned, when it was the last call
    seriesTicks         \* the svMain counts of the DataEvents pushed since the perf state
                        \* was last reset, added up

perfVars == <<statsLog, lastFxsMemory, lastNodeMemory, lastPerfBoundaries, lastPerfCounts,
              lastPerfSaved, file, writes, loadPc, collectPc, sched, perfOp, cycMem, logBeforeBoot,
              appended, summary, seriesTicks>>

monVars == <<delayLimit, fatalLimit, swLastHealthyEvent, firstHealthyEvent, sw,
             monOp, seenHealthy, lastMarkAt, firstMarkAt, preResetMarkAt, swStartAt,
             swEverStarted>>

\* ---------------------------------------------------------------- Stopwatch
\* a Stopwatch object is [autoStart |-> BOOLEAN, tsStart |-> optional ms]

\* restart(): this.tsStart = Date.now()
StopwatchRestart(s, t) == [s EXCEPT !.tsStart = Some(t)]

\* constructor(autoStart?)
StopwatchNew(autoStart, t) ==
    IF autoStart
        THEN StopwatchRestart([autoStart |-> TRUE, tsStart |-> None], t)
        ELSE [autoStart |-> FALSE, tsStart |-> None]

StopwatchReset_AlwaysClear(s, t) == [s EXCEPT !.tsStart = None]

\* reset()
StopwatchReset(s, t) ==
    IF s.autoStart THEN StopwatchRestart(s, t) ELSE [s EXCEPT !.tsStart = None]

\* get started()
StopwatchStarted(s) == s.tsStart # None

StopwatchElapsed_RoundUp(s, t) ==
    IF s.tsStart = None
        THEN Infinity
        ELSE ((t - Val(s.tsStart)) + (MsPerSec - 1)) \div MsPerSec

\* get elapsed(): Infinity, or Math.floor((Date.now() - tsStart) / 1000)
StopwatchElapsed(s, t) ==
    IF s.tsStart = None
        THEN Infinity
        ELSE (t - Val(s.tsStart)) \div MsPerSec

StopwatchIsOver_Strict(s, secs, t) ==
    LET elapsed == StopwatchElapsed(s, t)
    IN  IF elapsed = Infinity THEN FALSE ELSE elapsed > secs

\* isOver(secs)
StopwatchIsOver(s, secs, t) ==
    LET elapsed == StopwatchElapsed(s, t)
    IN  IF elapsed = Infinity THEN FALSE ELSE elapsed >= secs

\* ------------------------------------------------------- HealthEventMonitor
\* get status()
MonitorState ==
    IF ~StopwatchStarted(swLastHealthyEvent) THEN "PENDING"
    ELSE IF StopwatchIsOver(swLastHealthyEvent, fatalLimit, now) THEN "FATAL"
    ELSE IF StopwatchIsOver(swLastHealthyEvent, delayLimit, now) THEN "DELAYED"
    ELSE "HEALTHY"

\* JavaScript truthiness of `number | undefined`
Truthy(o) == IsSome(o) /\ Val(o) # 0

Status ==
    [ state |-> MonitorState,
      secsSinceLast |-> StopwatchElapsed(swLastHealthyEvent, now),
      secsSinceFirst |-> IF Truthy(firstHealthyEvent)
                            THEN (now - Val(firstHealthyEvent)) \div MsPerSec
                            ELSE Infinity ]

InitMon ==
    /\ delayLimit \in 0..MaxLimit
    /\ fatalLimit \in 0..MaxLimit
    /\ swLastHealthyEvent = StopwatchNew(FALSE, now)
    /\ firstHealthyEvent = None
    /\ \E a \in BOOLEAN :
          /\ sw = StopwatchNew(a, now)
          /\ swStartAt = IF a THEN Some(now) ELSE None
          /\ swEverStarted = a
    /\ monOp = "new"
    /\ seenHealthy = FALSE
    /\ lastMarkAt = None
    /\ firstMarkAt = None
    /\ preResetMarkAt = None

\* HealthEventMonitor.markHealthy()
MarkHealthy ==
    /\ swLastHealthyEvent' = StopwatchRestart(swLastHealthyEvent, now)
    /\ firstHealthyEvent' = IF IsSome(firstHealthyEvent) THEN firstHealthyEvent ELSE Some(now)
    /\ monOp' = "markHealthy"
    /\ seenHealthy' = TRUE
    /\ lastMarkAt' = Some(now)
    /\ firstMarkAt' = IF seenHealthy THEN firstMarkAt ELSE Some(now)
    /\ UNCHANGED <<now, delayLimit, fatalLimit, sw, preResetMarkAt, swStartAt, swEverStarted>>
    /\ UNCHANGED perfVars

\* what the calls observed so far record when reset() is called
ResetObserved ==
    /\ monOp' = "reset"
    /\ seenHealthy' = FALSE
    /\ lastMarkAt' = None
    /\ firstMarkAt' = None
    /\ preResetMarkAt' = IF seenHealthy THEN firstMarkAt ELSE preResetMarkAt
    /\ UNCHANGED <<now, delayLimit, fatalLimit, sw, swStartAt, swEverStarted>>
    /\ UNCHANGED perfVars

MonitorReset_KeepFirst ==
    /\ swLastHealthyEvent' = StopwatchReset(swLastHealthyEvent, now)
    /\ firstHealthyEvent' = firstHealthyEvent
    /\ ResetObserved

\* HealthEventMonitor.reset()
MonitorReset ==
    /\ swLastHealthyEvent' = StopwatchReset(swLastHealthyEvent, now)
    /\ firstHealthyEvent' = None
    /\ ResetObserved

\* sw.restart()
SwRestart ==
    /\ sw' = StopwatchRestart(sw, now)
    /\ swStartAt' = Some(now)
    /\ swEverStarted' = TRUE
    /\ monOp' = "swRestart"
    /\ UNCHANGED <<now, delayLimit, fatalLimit, swLastHealthyEvent, firstHealthyEvent,
                   seenHealthy, lastMarkAt, firstMarkAt, preResetMarkAt>>
    /\ UNCHANGED perfVars

\* sw.reset()
SwReset ==
    /\ sw' = StopwatchReset(sw, now)
    /\ swStartAt' = IF sw.autoStart THEN Some(now) ELSE None
    /\ swEverStarted' = (swEverStarted \/ sw.autoStart)
    /\ monOp' = "swReset"
    /\ UNCHANGED <<now, delayLimit, fatalLimit, swLastHealthyEvent, firstHealthyEvent,
                   seenHealthy, lastMarkAt, firstMarkAt, preResetMarkAt>>
    /\ UNCHANGED perfVars

\* the clock advances
MonTick ==
    /\ now < StartMs + MaxTicks * StepMs
    /\ now' = now + StepMs
    /\ monOp' = "tick"
    /\ UNCHANGED <<delayLimit, fatalLimit, swLastHealthyEvent, firstHealthyEvent, sw,
                   seenHealthy, lastMarkAt, firstMarkAt, preResetMarkAt, swStartAt,
                   swEverStarted>>
    /\ UNCHANGED perfVars

NextMon == MarkHealthy \/ MonitorReset \/ SwRestart \/ SwReset \/ MonTick


\* ------------------------------------------------------ PerformanceCollector
\* SSPerfCountsType: the cumulative tick counts of the three tracked threads (the
\* per-bucket counts, which are subtracted the way the counts are, are left out)
PerfCounts(main, net, sync) == [svMain |-> main, svNetwork |-> net, svSync |-> sync]

\* perfUtils.diffPerfs: curr itself when there is no previous sample, else the
\* difference of the counts
DiffPerfs(curr, prev) ==
    IF prev = None
        THEN curr
        ELSE PerfCounts(curr.svMain - Val(prev).svMain,
                        curr.svNetwork - Val(prev).svNetwork,
                        curr.svSync - Val(prev).svSync)

\* perfUtils.perfCountsToHist: { count, freqs } per thread (freqs left out with
\* the buckets)
PerfCountsToHist(c) ==
    [svMain |-> [count |-> c.svMain],
     svNetwork |-> [count |-> c.svNetwork],
     svSync |-> [count |-> c.svSync]]

NoHist == PerfCountsToHist(PerfCounts(0, 0, 0))

\* the entries of SSLogType (bootTime, reason, players and the memory fields are
\* payload that no step reads back)
BootEvent(t) == [type |-> "svBoot", ts |-> t, perf |-> NoHist]
CloseEvent(t) == [type |-> "svClose", ts |-> t, perf |-> NoHist]
DataEvent(t, hist) == [type |-> "data", ts |-> t, perf |-> hist]

Last(log) == log[Len(log)]
Front(log) == SubSeq(log, 1, Len(log) - 1)

\* statsLogOptimizer.optimizeStatsLog (in place): boot and close markers are
\* kept, a DataEvent is kept while it is no older than the retention age and has
\* the minimum of svMain ticks; the order is kept
OptimizeStatsLog(log, t) ==
    SelectSeq(log, LAMBDA e : \/ e.type # "data"
                              \/ /\ t - e.ts <= RETENTION_MS
                                 /\ e.perf.svMain.count >= PERF_DATA_MIN_TICKS)

\* SSFileType, and what else the path may hold
FileDoc(version, boundaries, log) ==
    [kind |-> "doc", version |-> version, lastPerfBoundaries |-> boundaries, log |-> log]
FileAbsent == [kind |-> "absent", version |-> 0, lastPerfBoundaries |-> None, log |-> <<>>]
FileInvalid == [kind |-> "invalid", version |-> 0, lastPerfBoundaries |-> None, log |-> <<>>]

\* files left by an earlier run of the program
EarlierTs == StartMs - StepMs
InitialFiles ==
    { FileAbsent,
      FileInvalid,
      FileDoc(STATS_DATA_FILE_VERSION - 1, Some(1), <<BootEvent(EarlierTs)>>),
      FileDoc(STATS_DATA_FILE_VERSION, Some(1),
              <<BootEvent(EarlierTs),
                DataEvent(EarlierTs, PerfCountsToHist(PerfCounts(MaxCount, MaxCount, MaxCount)))>>) }

\* what fetchRawPerfData may return: two boundary configurations, counts at the
\* top of the range or with one thread short of the minimum of ticks
StructSamples ==
    { [perfBoundaries |-> b, perfMetrics |-> c] :
        b \in 1..2,
        c \in { PerfCounts(MaxCount, MaxCount, MaxCount),
                PerfCounts(1, MaxCount, MaxCount),
                PerfCounts(MaxCount, 1, MaxCount),
                PerfCounts(MaxCount, MaxCount, 1) } }

\* what fetchRawPerfData may return: one boundary configuration, svMain over the
\* whole range, svNetwork at the top of the range or one below
CountSamples ==
    { [perfBoundaries |-> 1, perfMetrics |-> PerfCounts(m, n, MaxCount)] :
        m \in 1..MaxCount, n \in (MaxCount - 1)..MaxCount }

\* what fetchRawPerfData may return: one boundary configuration, counts at the
\* top of the range
SteadySamples ==
    { [perfBoundaries |-> 1, perfMetrics |-> PerfCounts(MaxCount, MaxCount, MaxCount)] }

\* the observations a step that is no resumed cycle leaves
Observe(op) ==
    /\ perfOp' = op
    /\ cycMem' = None
    /\ appended' = None
    /\ summary' = None

\* constructor: the fields' initializers; loadStatsHistory() is called and is
\* suspended in fsp.readFile
InitPerf ==
    /\ statsLog = <<>>
    /\ lastFxsMemory = None
    /\ lastNodeMemory = None
    /\ lastPerfBoundaries = None
    /\ lastPerfCounts = None
    /\ lastPerfSaved = None
    /\ file \in InitialFiles
    /\ writes = <<>>
    /\ sched \in {"eager", "any"}
    /\ loadPc = "reading"
    /\ collectPc = "idle"
    /\ perfOp = "new"
    /\ cycMem = None
    /\ appended = None
    /\ logBeforeBoot = None
    /\ summary = None
    /\ seriesTicks = 0

\* saveStatsHistory(), up to fsp.writeFile being issued: the optimizer runs on
\* the log, the document is serialized, the write is in progress
SaveStatsHistory(log, boundaries) ==
    LET savePerfData == FileDoc(STATS_DATA_FILE_VERSION, boundaries,
                                OptimizeStatsLog(log, now))
    IN  /\ statsLog' = OptimizeStatsLog(log, now)
        /\ IF sched = "eager"
              THEN /\ writes' = writes
                   /\ file' = savePerfData
              ELSE /\ Len(writes) < MaxWrites
                   /\ writes' = Append(writes, savePerfData)
                   /\ file' = file

\* a handler that does not reach saveStatsHistory()
NoSave == UNCHANGED <<writes, file>>

\* the sequence s without its i-th element
RemoveAt(s, i) == SubSeq(s, 1, i - 1) \o SubSeq(s, i + 1, Len(s))

WriteSettles_FailureResetsLog ==
    \E i \in 1..Len(writes),
       outcome \in {"written", "writeFailed"} \cup (IF Len(writes) > 1 THEN {"torn"} ELSE {}) :
        /\ writes' = RemoveAt(writes, i)
        /\ file' = CASE outcome = "written" -> writes[i]
                     [] outcome = "writeFailed" -> file
                     [] outcome = "torn" -> FileInvalid
        /\ statsLog' = IF outcome = "writeFailed" THEN <<>> ELSE statsLog
        /\ Observe(outcome)
        /\ logBeforeBoot' = None
        /\ UNCHANGED <<now, lastFxsMemory, lastNodeMemory, lastPerfBoundaries,
                       lastPerfCounts, lastPerfSaved, loadPc, collectPc, sched,
                       seriesTicks>>
        /\ UNCHANGED monVars

\* one fsp.writeFile settles, in any order: the document is on disk, or the write
\* failed (the error is caught and logged), or, with another write of the same
\* path in progress, the file is left with a mix of the documents
WriteSettles ==
    \E i \in 1..Len(writes),
       outcome \in {"written", "writeFailed"} \cup (IF Len(writes) > 1 THEN {"torn"} ELSE {}) :
        /\ writes' = RemoveAt(writes, i)
        /\ file' = CASE outcome = "written" -> writes[i]
                     [] outcome = "writeFailed" -> file
                     [] outcome = "torn" -> FileInvalid
        /\ Observe(outcome)
        /\ logBeforeBoot' = None
        /\ UNCHANGED <<now, statsLog, lastFxsMemory, lastNodeMemory, lastPerfBoundaries,
                       lastPerfCounts, lastPerfSaved, loadPc, collectPc, sched,
                       seriesTicks>>
        /\ UNCHANGED monVars

FileLoads_AnyVersion(f) == f.kind = "doc"

\* the file is read, parsed, of the current version and valid against the schema
FileLoads(f) == f.kind = "doc" /\ f.version = STATS_DATA_FILE_VERSION

\* loadStatsHistory() resumes when fsp.readFile settles
LoadStatsHistory ==
    /\ loadPc = "reading"
    /\ loadPc' = "done"
    /\ IF FileLoads(file)
          THEN /\ lastPerfBoundaries' = file.lastPerfBoundaries
               /\ statsLog' = OptimizeStatsLog(file.log, now)
               /\ lastPerfCounts' = None
               /\ lastPerfSaved' = None
               /\ seriesTicks' = 0
               /\ Observe("loaded")
          ELSE /\ UNCHANGED <<lastPerfBoundaries, statsLog, lastPerfCounts, lastPerfSaved,
                              seriesTicks>>
               /\ Observe("loadFailed")
    /\ logBeforeBoot' = None
    /\ UNCHANGED <<now, lastFxsMemory, lastNodeMemory, file, writes, collectPc, sched>>
    /\ UNCHANGED monVars

\* logServerBoot(bootTime)
LogServerBoot ==
    /\ lastPerfCounts' = None
    /\ lastPerfSaved' = None
    /\ seriesTicks' = 0
    /\ lastNodeMemory' = None
    /\ lastFxsMemory' = None
    /\ LET kept == IF Len(statsLog) > 0 /\ Last(statsLog).type = "svBoot"
                      THEN Front(statsLog) ELSE statsLog
       IN  /\ Len(kept) < MaxLog
           /\ SaveStatsHistory(Append(kept, BootEvent(now)), lastPerfBoundaries)
    /\ Observe("logServerBoot")
    /\ logBeforeBoot' = Some(statsLog)
    /\ UNCHANGED <<now, lastPerfBoundaries, loadPc, collectPc, sched>>
    /\ UNCHANGED monVars

LogServerClose_KeepsBoot ==
    /\ lastPerfCounts' = None
    /\ lastPerfSaved' = None
    /\ seriesTicks' = 0
    /\ lastNodeMemory' = None
    /\ lastFxsMemory' = None
    /\ IF Len(statsLog) > 0 /\ Last(statsLog).type = "svClose"
          THEN UNCHANGED statsLog /\ NoSave
          ELSE /\ Len(statsLog) < MaxLog
               /\ SaveStatsHistory(Append(statsLog, CloseEvent(now)), lastPerfBoundaries)
    /\ Observe("logServerClose")
    /\ logBeforeBoot' = IF perfOp = "logServerBoot" THEN logBeforeBoot ELSE None
    /\ UNCHANGED <<now, lastPerfBoundaries, loadPc, collectPc, sched>>
    /\ UNCHANGED monVars

\* logServerClose(reason)
LogServerClose ==
    /\ lastPerfCounts' = None
    /\ lastPerfSaved' = None
    /\ seriesTicks' = 0
    /\ lastNodeMemory' = None
    /\ lastFxsMemory' = None
    /\ IF Len(statsLog) > 0 /\ Last(statsLog).type = "svClose"
          THEN UNCHANGED statsLog /\ NoSave
          ELSE IF Len(statsLog) > 0 /\ Last(statsLog).type = "svBoot"
                  THEN statsLog' = Front(statsLog) /\ NoSave
                  ELSE /\ Len(statsLog) < MaxLog
                       /\ SaveStatsHistory(Append(statsLog, CloseEvent(now)),
                                           lastPerfBoundaries)
    /\ Observe("logServerClose")
    /\ logBeforeBoot' = IF perfOp = "logServerBoot" THEN logBeforeBoot ELSE None
    /\ UNCHANGED <<now, lastPerfBoundaries, loadPc, collectPc, sched>>
    /\ UNCHANGED monVars

\* logServerNodeMemory(payload): a payload that fails the schema is dropped
LogServerNodeMemory ==
    \E valid \in BOOLEAN :
        /\ IF valid
              THEN /\ lastNodeMemory' = Some(1)
                   /\ Observe("logServerNodeMemory")
                   /\ logBeforeBoot' = None
              ELSE UNCHANGED <<lastNodeMemory, perfOp, cycMem, appended, logBeforeBoot,
                               summary>>
        /\ UNCHANGED <<now, statsLog, lastFxsMemory, lastPerfBoundaries, lastPerfCounts,
                       lastPerfSaved, file, writes, loadPc, collectPc, sched, seriesTicks>>
        /\ UNCHANGED monVars

\* the clock advances
PerfTick ==
    /\ now < StartMs + MaxPerfTicks * StepMs
    /\ now' = now + StepMs
    /\ Observe("tick")
    /\ logBeforeBoot' = None
    /\ UNCHANGED <<statsLog, lastFxsMemory, lastNodeMemory, lastPerfBoundaries,
                   lastPerfCounts, lastPerfSaved, file, writes, loadPc, collectPc, sched,
                   seriesTicks>>
    /\ UNCHANGED monVars

PreconditionsFail_IgnoreStatus(fxChild, playerlistManager, currentStatus) ==
    fxChild = "null" \/ playerlistManager = "null"

\* the precondition checks of collectStats()
PreconditionsFail(fxChild, playerlistManager, currentStatus) ==
    fxChild = "null" \/ playerlistManager = "null" \/ currentStatus # "ONLINE"

\* collectStats(), from the call to the await of Promise.allSettled: it returns
\* at once unless the server runs, the player list exists and the monitor says
\* ONLINE, and throws at once on a host that is no non-empty string
CollectStatsCall(fxChild, playerlistManager, currentStatus, fxServerHost) ==
    /\ IF PreconditionsFail(fxChild, playerlistManager, currentStatus)
          THEN /\ Observe("collectSkipped")
               /\ UNCHANGED collectPc
          ELSE IF fxServerHost = ""
                  THEN /\ Observe("collectInvalidHost")
                       /\ UNCHANGED collectPc
                  ELSE /\ collectPc = "idle"
                       /\ collectPc' = "fetching"
                       /\ Observe("collectFetching")
    /\ logBeforeBoot' = None
    /\ UNCHANGED <<now, statsLog, lastFxsMemory, lastNodeMemory, lastPerfBoundaries,
                   lastPerfCounts, lastPerfSaved, file, writes, loadPc, sched, seriesTicks>>
    /\ UNCHANGED monVars

\* what the collaborators of collectStats() may hold when it is called
CollectInputs ==
    [fxChild : {"null", "running"}, playerlistManager : {"null", "present"},
     currentStatus : {"ONLINE", "OFFLINE"}, fxServerHost : {"", "host"}]

CollectStats ==
    \E in \in CollectInputs :
        CollectStatsCall(in.fxChild, in.playerlistManager, in.currentStatus, in.fxServerHost)

FxsAfterFetch_Always(memRes) == memRes

\* if (fetchFxsMemoryRes.status === 'fulfilled') this.lastFxsMemory = its value
FxsAfterFetch(memRes) == IF IsSome(memRes) THEN memRes ELSE lastFxsMemory

NotEnoughTicks_MainOnly(perfMetrics) == perfMetrics.svMain < PERF_DATA_MIN_TICKS

\* the minimum tick check of collectStats()
NotEnoughTicks(perfMetrics) ==
    \/ perfMetrics.svMain < PERF_DATA_MIN_TICKS
    \/ perfMetrics.svNetwork < PERF_DATA_MIN_TICKS
    \/ perfMetrics.svSync < PERF_DATA_MIN_TICKS

PerfHistToSave_FromLastSample(perfMetrics, counts, saved, t) ==
    IF saved = None
        THEN Some(PerfCountsToHist(DiffPerfs(perfMetrics, counts)))
        ELSE IF t - Val(saved).ts >= PERF_DATA_INITIAL_RESOLUTION
                THEN Some(PerfCountsToHist(DiffPerfs(perfMetrics, counts)))
                ELSE None

\* perfHistToSave: the ticks since the last collection when nothing was saved
\* yet, the ticks since the last saved collection when it is old enough, else
\* undefined
PerfHistToSave(perfMetrics, counts, saved, t) ==
    IF saved = None
        THEN Some(PerfCountsToHist(DiffPerfs(perfMetrics, counts)))
        ELSE IF t - Val(saved).ts >= PERF_DATA_INITIAL_RESOLUTION
                THEN Some(PerfCountsToHist(DiffPerfs(perfMetrics, Some(Val(saved).counts))))
                ELSE None

\* the counter reset check, first branch: the fetched svMain count is below the
\* one of the last full sample, lastPerfCounts and lastPerfSaved are reset
ResetBoth(perfMetrics, counts) ==
    IsSome(counts) /\ Val(counts).svMain > perfMetrics.svMain

\* the counter reset check, else-if branch: the fetched svMain count is below
\* the one of the last saved sample only, lastPerfSaved alone is reset
ResetSaved(perfMetrics, counts, saved) ==
    /\ ~ResetBoth(perfMetrics, counts)
    /\ IsSome(saved)
    /\ Val(saved).counts.svMain > perfMetrics.svMain

SavedAfterReset_OnlyElseBranch(perfMetrics, counts, saved) ==
    IF ResetSaved(perfMetrics, counts, saved) THEN None ELSE saved

\* lastPerfSaved after the counter reset check
SavedAfterReset(perfMetrics, counts, saved) ==
    IF ResetBoth(perfMetrics, counts) \/ ResetSaved(perfMetrics, counts, saved)
        THEN None
        ELSE saved

LastPerfCountsAfter_OnlyWhenSaved(perfMetrics, histToSave, counts) ==
    IF histToSave = None THEN counts ELSE Some(perfMetrics)

\* this.lastPerfCounts = perfMetrics, before the save gate is looked at
LastPerfCountsAfter(perfMetrics, histToSave, counts) == Some(perfMetrics)

\* collectStats(), from the fetches having settled to the await of
\* saveStatsHistory() or the return before it.  perfRes and memRes are the
\* settled results: None is a rejection
CollectStatsResume(perfRes, memRes) ==
    /\ collectPc = "fetching"
    /\ collectPc' = "idle"
    /\ logBeforeBoot' = None
    /\ cycMem' = memRes
    /\ summary' = None
    /\ lastFxsMemory' = FxsAfterFetch(memRes)
    /\ UNCHANGED <<now, lastNodeMemory, loadPc, sched>>
    /\ UNCHANGED monVars
    /\ IF perfRes = None
          THEN \* throw fetchRawPerfDataRes.reason
               /\ perfOp' = "collectThrew"
               /\ appended' = None
               /\ UNCHANGED <<statsLog, lastPerfBoundaries, lastPerfCounts, lastPerfSaved,
                              seriesTicks>>
               /\ NoSave
          ELSE
       LET perfBoundaries == Val(perfRes).perfBoundaries
           perfMetrics == Val(perfRes).perfMetrics
       IN
       IF NotEnoughTicks(perfMetrics)
          THEN /\ perfOp' = "collectLowTicks"
               /\ appended' = None
               /\ UNCHANGED <<statsLog, lastPerfBoundaries, lastPerfCounts, lastPerfSaved,
                              seriesTicks>>
               /\ NoSave
          ELSE
       LET \* first collection, or boundaries changed
           first == lastPerfCounts = None \/ lastPerfSaved = None
                        \/ lastPerfBoundaries = None
           changed == ~first /\ perfBoundaries # Val(lastPerfBoundaries)
           log1 == IF changed THEN <<>> ELSE statsLog
           bounds1 == IF first \/ changed THEN Some(perfBoundaries) ELSE lastPerfBoundaries
           counts1 == IF first \/ changed THEN None ELSE lastPerfCounts
           saved1 == IF first \/ changed THEN None ELSE lastPerfSaved
           \* the counter reset
           resetBoth == ResetBoth(perfMetrics, counts1)
           counts2 == IF resetBoth THEN None ELSE counts1
           saved2 == SavedAfterReset(perfMetrics, counts1, saved1)
           \* the series restarts where the perf state, or lastPerfSaved, is reset
           ticks2 == IF \/ first \/ changed \/ resetBoth
                        \/ ResetSaved(perfMetrics, counts1, saved1)
                        THEN 0 ELSE seriesTicks
           \* enough time since the last saved collection?
           perfHistToSave == PerfHistToSave(perfMetrics, counts2, saved2, now)
       IN
       /\ lastPerfBoundaries' = bounds1
       /\ lastPerfCounts' = LastPerfCountsAfter(perfMetrics, perfHistToSave, counts2)
       /\ IF perfHistToSave = None
             THEN /\ perfOp' = "collectGated"
                  /\ appended' = None
                  /\ statsLog' = log1
                  /\ lastPerfSaved' = saved2
                  /\ seriesTicks' = ticks2
                  /\ NoSave
             ELSE /\ perfOp' = "collectSaved"
                  /\ Len(log1) < MaxLog
                  /\ lastPerfSaved' = Some([ts |-> now, counts |-> perfMetrics])
                  /\ appended' = Some(DataEvent(now, Val(perfHistToSave)))
                  /\ seriesTicks' = ticks2 + Val(perfHistToSave).svMain.count
                  /\ SaveStatsHistory(Append(log1, DataEvent(now, Val(perfHistToSave))),
                                      bounds1)

\* what fetchFxsMemory may return
MemSamples == 1..MaxFxs

\* the fetches settle, each fulfilled (with one of the given values) or rejected
FetchesSettle(samples, mems) ==
    \E perfRes \in {None} \cup {Some(x) : x \in samples},
       memRes \in {None} \cup {Some(v) : v \in mems} :
        CollectStatsResume(perfRes, memRes)

\* isSSLogDataType(log)
IsSSLogDataType(e) == e.type = "data"

SummaryQualifies_StrictWindow(e, t) ==
    /\ ~(e.ts <= t - SCAN_WINDOW_MS)
    /\ IsSSLogDataType(e)
    /\ ~(e.perf.svMain.count < PERF_DATA_MIN_TICKS)

\* the three tests of the loop of getServerPerfSummary(): the entry is counted
\* unless one of them says continue
SummaryQualifies(e, t) ==
    /\ ~(e.ts < t - SCAN_WINDOW_MS)
    /\ IsSSLogDataType(e)
    /\ ~(e.perf.svMain.count < PERF_DATA_MIN_TICKS)

\* totalSnapshots after the loop over the log
RECURSIVE TotalSnapshots(_, _)
TotalSnapshots(log, t) ==
    IF log = <<>> THEN 0
    ELSE (IF SummaryQualifies(Head(log), t) THEN 1 ELSE 0) + TotalSnapshots(Tail(log), t)

\* getServerPerfSummary(): null, or the summary (of its fields snaps is kept;
\* freqs and the medians are computed from payload that is left out)
GetServerPerfSummary ==
    /\ summary' = IF TotalSnapshots(statsLog, now) < minSnapshots
                     THEN None
                     ELSE Some([snaps |-> TotalSnapshots(statsLog, now)])
    /\ perfOp' = "getServerPerfSummary"
    /\ cycMem' = None
    /\ appended' = None
    /\ logBeforeBoot' = None
    /\ UNCHANGED <<now, statsLog, lastFxsMemory, lastNodeMemory, lastPerfBoundaries,
                   lastPerfCounts, lastPerfSaved, file, writes, loadPc, collectPc, sched,
                   seriesTicks>>
    /\ UNCHANGED monVars

\* n copies of e
Repeat(e, n) == [i \in 1..n |-> e]

\* logs for the summary, oldest entry first: DataEvents from before the scan
\* window, DataEvents of the very millisecond the window starts at, BootEvents,
\* DataEvents short of ticks, and DataEvents that qualify
SummaryLogs(t) ==
    { Repeat(DataEvent(t - SCAN_WINDOW_MS - 1, PerfCountsToHist(PerfCounts(MaxCount, MaxCount, MaxCount))), old)
      \o Repeat(DataEvent(t - SCAN_WINDOW_MS, PerfCountsToHist(PerfCounts(MaxCount, MaxCount, MaxCount))), edge)
      \o Repeat(BootEvent(t - 1), boots)
      \o Repeat(DataEvent(t - 1, PerfCountsToHist(PerfCounts(PERF_DATA_MIN_TICKS - 1, MaxCount, MaxCount))), low)
      \o Repeat(DataEvent(t, PerfCountsToHist(PerfCounts(PERF_DATA_MIN_TICKS, MaxCount, MaxCount))), good) :
        old \in 0..MaxOther, edge \in 0..MaxOther, boots \in 0..MaxOther, low \in 0..MaxOther,
        good \in 0..MaxSnaps }

\* the summary is asked for
NextSummary == GetServerPerfSummary

\* the collector with every write settled before the next step
NextPerf ==
    \/ LoadStatsHistory
    \/ LogServerBoot
    \/ LogServerClose
    \/ LogServerNodeMemory
    \/ CollectStats
    \/ FetchesSettle(StructSamples, MemSamples)
    \/ PerfTick

\* the collector sampling counters over their whole range, while the startup
\* load is pending
NextCounts ==
    \/ LogServerBoot
    \/ CollectStats
    \/ FetchesSettle(CountSamples, {})
    \/ PerfTick

\* the collector with writes that settle, or fail, at any later time
NextAsync ==
    \/ LoadStatsHistory
    \/ LogServerBoot
    \/ CollectStats
    \/ FetchesSettle(SteadySamples, {})
    \/ WriteSettles

vars == <<now, monVars, perfVars>>

\* the collector as its constructor leaves it, with no file on disk
InitPerfIdle == InitPerf /\ file = FileAbsent /\ sched = "eager"

\* a monitor with fixed limits
InitMonFixed == InitMon /\ delayLimit = 1 /\ fatalLimit = 2 /\ ~sw.autoStart

Init == now = StartMs /\ InitMon /\ InitPerfIdle

SpecMon == Init /\ [][NextMon]_vars

InitPerfSpec == now = StartMs /\ InitMonFixed /\ InitPerf /\ sched = "eager"

SpecPerf == InitPerfSpec /\ [][NextPerf]_vars

InitAsync == now = StartMs /\ InitMonFixed /\ InitPerf /\ sched = "any"

SpecAsync == InitAsync /\ [][NextAsync]_vars

\* a collector that has run for more than the scan window
InitSummary ==
    /\ now = StartMs + SCAN_WINDOW_MS
    /\ InitMonFixed
    /\ statsLog \in SummaryLogs(now)
    /\ lastFxsMemory = None /\ lastNodeMemory = None
    /\ lastPerfBoundaries = Some(1)
    /\ lastPerfCounts = None /\ lastPerfSaved = None
    /\ file = FileDoc(STATS_DATA_FILE_VERSION, lastPerfBoundaries, statsLog)
    /\ writes = <<>> /\ sched = "eager"
    /\ loadPc = "done" /\ collectPc = "idle"
    /\ perfOp = "loaded" /\ cycMem = None /\ appended = None
    /\ logBeforeBoot = None /\ summary = None /\ seriesTicks = 0

SpecSummary == InitSummary /\ [][NextSummary]_vars

InitCounts == now = StartMs /\ InitMonFixed /\ InitPerfIdle

SpecCounts == InitCounts /\ [][NextCounts]_vars

\* ------------------------------------------------------------------ claims
\* seconds elapsed since the last markHealthy(), as the caller counts them
SecsSinceMark == (now - Val(lastMarkAt)) \div MsPerSec

C1_Lifecycle ==
    /\ (monOp = "new" => MonitorState = "PENDING")
    /\ (monOp = "markHealthy" => MonitorState = "HEALTHY")
    /\ (seenHealthy /\ SecsSinceMark >= delayLimit /\ SecsSinceMark < fatalLimit
            => MonitorState = "DELAYED")
    /\ (seenHealthy /\ SecsSinceMark >= fatalLimit => MonitorState = "FATAL")

\* C1 as stated: for every pair delayLimit < fatalLimit a new monitor is PENDING,
\* is HEALTHY directly after markHealthy(), DELAYED once delayLimit seconds passed
\* without a markHealthy(), FATAL once fatalLimit seconds passed.
C1_AsStated == (delayLimit < fatalLimit) => C1_Lifecycle

\* C1 amended: the same lifecycle for every pair with 0 < delayLimit < fatalLimit
\* (with delayLimit = 0 the monitor is DELAYED directly after markHealthy()).
C1_PositiveDelay == (0 < delayLimit /\ delayLimit < fatalLimit) => C1_Lifecycle

\* a monitor marked healthy again after some time, then left until it is DELAYED
C1_Witness ==
    /\ 0 < delayLimit /\ delayLimit < fatalLimit
    /\ seenHealthy /\ Val(firstMarkAt) < Val(lastMarkAt)
    /\ MonitorState = "DELAYED"

\* C2: the reported state is PENDING iff no markHealthy() since the last reset,
\* otherwise FATAL iff elapsed >= fatalLimit, otherwise DELAYED iff elapsed >=
\* delayLimit, otherwise HEALTHY, with elapsed the whole seconds since the last
\* markHealthy(); and the monitor's fields change only in markHealthy() and reset().
C2_StateIsFunctionOfElapsed ==
    /\ [](MonitorState = IF ~seenHealthy THEN "PENDING"
                         ELSE IF SecsSinceMark >= fatalLimit THEN "FATAL"
                         ELSE IF SecsSinceMark >= delayLimit THEN "DELAYED"
                         ELSE "HEALTHY")
    /\ [](seenHealthy => Status.secsSinceLast = SecsSinceMark)
    /\ [][monOp' \notin {"markHealthy", "reset"} =>
            UNCHANGED <<swLastHealthyEvent, firstHealthyEvent, delayLimit, fatalLimit>>]_vars

\* limits in either order, and the monitor left long enough to become FATAL
C2_Witness ==
    /\ delayLimit >= fatalLimit /\ fatalLimit > 0
    /\ seenHealthy /\ MonitorState = "FATAL"

\* C3: while no markHealthy() follows a reset() (or the construction) the status
\* is PENDING with both second counts Infinity, whatever time passes; after the
\* next markHealthy() secsSinceFirst counts from that call.
C3_ResetClearsFirstSeen ==
    /\ (~seenHealthy => Status = [state |-> "PENDING", secsSinceLast |-> Infinity,
                                  secsSinceFirst |-> Infinity])
    /\ (seenHealthy => Status.secsSinceFirst = (now - Val(firstMarkAt)) \div MsPerSec)

\* marked, reset, marked again later, and a second has passed since
C3_Witness ==
    /\ IsSome(preResetMarkAt) /\ seenHealthy
    /\ Val(preResetMarkAt) < Val(firstMarkAt)
    /\ Status.secsSinceFirst >= 1

C4_ElapsedValue ==
    /\ (StopwatchElapsed(sw, now) = Infinity <=> ~StopwatchStarted(sw))
    /\ (~swEverStarted => StopwatchElapsed(sw, now) = Infinity)
    /\ (swStartAt = None => StopwatchElapsed(sw, now) = Infinity)
    /\ (IsSome(swStartAt) =>
            /\ StopwatchElapsed(sw, now) = (now - Val(swStartAt)) \div MsPerSec
            /\ StopwatchElapsed(sw, now) >= 0)

\* C4 as stated: elapsed is Infinity exactly while the stopwatch is not started,
\* otherwise floor((now - start)/1000) >= 0, and any two successive reads of a
\* started stopwatch are non-decreasing.
C4_AsStated ==
    /\ []C4_ElapsedValue
    /\ [][(StopwatchStarted(sw) /\ StopwatchStarted(sw'))
            => StopwatchElapsed(sw', now') >= StopwatchElapsed(sw, now)]_vars

\* C4 amended: the same, with successive reads non-decreasing as long as neither
\* restart() nor reset() is called between them.
C4_NonDecreasingBetweenRestarts ==
    /\ []C4_ElapsedValue
    /\ [][(StopwatchStarted(sw) /\ monOp' \notin {"swRestart", "swReset"})
            => /\ StopwatchStarted(sw')
               /\ StopwatchElapsed(sw', now') >= StopwatchElapsed(sw, now)]_vars

\* an auto-start stopwatch that was reset and has run for two seconds since
C4_Witness ==
    /\ sw.autoStart /\ IsSome(swStartAt) /\ Val(swStartAt) > StartMs
    /\ StopwatchElapsed(sw, now) >= 2

\* -------------------------------------------- claims on PerformanceCollector
\* C5: the log never holds two BootEvents next to each other nor two CloseEvents
\* next to each other.
C5_NoAdjacentMarkers ==
    \A i \in 1..(Len(statsLog) - 1) :
        ~ /\ statsLog[i].type = statsLog[i + 1].type
          /\ statsLog[i].type \in {"svBoot", "svClose"}

\* the log without a dangling BootEvent at its end
WithoutDanglingBoot(log) ==
    IF Len(log) > 0 /\ Last(log).type = "svBoot" THEN Front(log) ELSE log

\* C6 as stated: after logServerBoot directly followed by logServerClose the log
\* is the log before the boot without its dangling trailing BootEvent.
C6_AsStated ==
    (perfOp = "logServerClose" /\ IsSome(logBeforeBoot))
        => statsLog = WithoutDanglingBoot(Val(logBeforeBoot))

\* C6 amended: ... the log before the boot without its dangling trailing
\* BootEvent and without the DataEvents the optimizer drops in the save of the
\* boot; neither the BootEvent nor a CloseEvent is left, an empty log stays empty.
C6_BootThenCloseLeavesNoMarker ==
    (perfOp = "logServerClose" /\ IsSome(logBeforeBoot))
        => /\ statsLog = OptimizeStatsLog(WithoutDanglingBoot(Val(logBeforeBoot)), now)
           /\ (Val(logBeforeBoot) = <<>> => statsLog = <<>>)

\* boot then close on a log that ended with a dangling BootEvent after a DataEvent
C6_Witness ==
    /\ perfOp = "logServerClose" /\ IsSome(logBeforeBoot)
    /\ Len(Val(logBeforeBoot)) > 1
    /\ Last(Val(logBeforeBoot)).type = "svBoot"
    /\ Len(statsLog) > 0

FetchResults == {None} \cup {Some(v) : v \in 1..MaxFxs}

\* C7 as stated: a cycle whose counter fetch was rejected throws and leaves the
\* log and lastFxsMemory, lastNodeMemory, lastPerfBoundaries, lastPerfCounts and
\* lastPerfSaved as they were, whatever the memory fetch returned.
C7_AsStated ==
    [][\A memRes \in FetchResults :
          CollectStatsResume(None, memRes)
            => /\ perfOp' = "collectThrew"
               /\ UNCHANGED <<statsLog, lastFxsMemory, lastNodeMemory, lastPerfBoundaries,
                              lastPerfCounts, lastPerfSaved>>]_vars

\* C7 amended: ... leaves the log and every cached field but lastFxsMemory as
\* they were; lastFxsMemory is the fetched value when the memory fetch was
\* fulfilled and is unchanged when it was rejected.
C7_ThrowKeepsAllButFxsMemory ==
    [][\A memRes \in FetchResults :
          CollectStatsResume(None, memRes)
            => /\ perfOp' = "collectThrew"
               /\ UNCHANGED <<statsLog, lastNodeMemory, lastPerfBoundaries,
                              lastPerfCounts, lastPerfSaved, file, writes>>
               /\ lastFxsMemory' = IF memRes = None THEN lastFxsMemory ELSE memRes]_vars

\* a cycle threw after both fetches were rejected, with every cache defined
C7_Witness ==
    /\ perfOp = "collectThrew" /\ cycMem = None
    /\ IsSome(lastFxsMemory) /\ IsSome(lastPerfCounts) /\ IsSome(lastPerfSaved)
    /\ Len(statsLog) > 0

LowTickSamples ==
    { s \in StructSamples : \/ s.perfMetrics.svMain < PERF_DATA_MIN_TICKS
                            \/ s.perfMetrics.svNetwork < PERF_DATA_MIN_TICKS
                            \/ s.perfMetrics.svSync < PERF_DATA_MIN_TICKS }

\* C8 as stated: a cycle whose counters have svMain, svNetwork or svSync below
\* the minimum tick count changes neither the log nor any cached field.
C8_AsStated ==
    [][\A s \in LowTickSamples, memRes \in FetchResults :
          CollectStatsResume(Some(s), memRes)
            => UNCHANGED <<statsLog, lastFxsMemory, lastNodeMemory, lastPerfBoundaries,
                           lastPerfCounts, lastPerfSaved>>]_vars

\* C8 amended: ... changes neither the log nor any cached field but
\* lastFxsMemory, which is the fetched value when the memory fetch was fulfilled.
C8_LowTicksKeepAllButFxsMemory ==
    [][\A s \in LowTickSamples, memRes \in FetchResults :
          CollectStatsResume(Some(s), memRes)
            => /\ perfOp' = "collectLowTicks"
               /\ UNCHANGED <<statsLog, lastNodeMemory, lastPerfBoundaries,
                              lastPerfCounts, lastPerfSaved, file, writes>>
               /\ lastFxsMemory' = IF memRes = None THEN lastFxsMemory ELSE memRes]_vars

\* a sample was rejected for its tick counts while every cache was defined
C8_Witness ==
    /\ perfOp = "collectLowTicks"
    /\ IsSome(cycMem) /\ IsSome(lastPerfCounts) /\ IsSome(lastPerfSaved)
    /\ Len(statsLog) > 0

\* C9: a cycle that passes the minimum tick check with boundaries other than the
\* cached ones leaves the log holding only its own DataEvent, the new boundaries
\* cached and the counters restarted from the fetched ones.
C9_BoundaryChangeWipesLog ==
    [][\A s \in StructSamples \ LowTickSamples, memRes \in FetchResults :
          ( /\ IsSome(lastPerfBoundaries)
            /\ s.perfBoundaries # Val(lastPerfBoundaries)
            /\ CollectStatsResume(Some(s), memRes) )
            => /\ statsLog' = <<DataEvent(now, PerfCountsToHist(s.perfMetrics))>>
               /\ lastPerfBoundaries' = Some(s.perfBoundaries)
               /\ lastPerfCounts' = Some(s.perfMetrics)
               /\ lastPerfSaved' = Some([ts |-> now, counts |-> s.perfMetrics])]_vars

\* C10: no DataEvent pushed by collectStats has a negative count for svMain,
\* svNetwork or svSync; when no counter went down since the last saved sample
\* the counts pushed are the fetched counts minus the last saved ones.
C10_NoNegativeDelta ==
    /\ [](IsSome(appended) =>
            /\ Val(appended).perf.svMain.count >= 0
            /\ Val(appended).perf.svNetwork.count >= 0
            /\ Val(appended).perf.svSync.count >= 0)
    /\ [][\A s \in CountSamples, memRes \in FetchResults :
            ( /\ IsSome(lastPerfSaved) /\ IsSome(lastPerfCounts)
              /\ s.perfMetrics.svMain >= Val(lastPerfSaved).counts.svMain
              /\ s.perfMetrics.svMain >= Val(lastPerfCounts).svMain
              /\ CollectStatsResume(Some(s), memRes)
              /\ IsSome(appended') )
              => Val(appended').perf =
                    PerfCountsToHist(PerfCounts(
                        s.perfMetrics.svMain - Val(lastPerfSaved).counts.svMain,
                        s.perfMetrics.svNetwork - Val(lastPerfSaved).counts.svNetwork,
                        s.perfMetrics.svSync - Val(lastPerfSaved).counts.svSync))]_vars

\* C11: a collectStats call made while fxChild is null, the player list is absent
\* or the monitor status is not ONLINE starts no fetch and changes neither the
\* log, nor a cached field, nor the file.
C11_SkipChangesNothing ==
    [][\A in \in CollectInputs :
          ( /\ \/ in.fxChild = "null"
               \/ in.playerlistManager = "null"
               \/ in.currentStatus # "ONLINE"
            /\ CollectStatsCall(in.fxChild, in.playerlistManager, in.currentStatus,
                                in.fxServerHost) )
            => /\ perfOp' = "collectSkipped"
               /\ UNCHANGED <<collectPc, statsLog, lastFxsMemory, lastNodeMemory,
                              lastPerfBoundaries, lastPerfCounts, lastPerfSaved, file,
                              writes>>]_vars

\* a call was skipped while the log and the caches were filled and a write was
\* in progress
C11_Witness ==
    /\ perfOp = "collectSkipped"
    /\ IsSome(lastPerfCounts) /\ IsSome(lastPerfSaved)
    /\ Len(statsLog) > 0 /\ Len(writes) > 0

\* C12: at no time are two writes of the stats file in progress at once.
C12_OneWriteAtATime == Len(writes) <= 1

\* C13: while a collectStats cycle waits for its fetches, no logServerBoot,
\* logServerClose or logServerNodeMemory call takes effect.
C13_NoEventDuringCycle ==
    [][collectPc = "fetching"
        => perfOp' \notin {"logServerBoot", "logServerClose", "logServerNodeMemory"}]_vars

\* C15: a load that finds the file missing, unparseable, invalid or of another
\* version ends in the handler of the error and leaves the log, lastPerfBoundaries
\* and the other caches as they were.
C15_FailedLoadAdoptsNothing ==
    [][( /\ loadPc = "reading" /\ loadPc' = "done"
         /\ \/ file.kind # "doc"
            \/ file.version # STATS_DATA_FILE_VERSION )
        => /\ perfOp' = "loadFailed"
           /\ UNCHANGED <<statsLog, lastPerfBoundaries, lastPerfCounts, lastPerfSaved,
                          lastFxsMemory, lastNodeMemory, file, writes>>]_vars

\* a file of another version was rejected after a boot had been logged
C15_Witness ==
    /\ perfOp = "loadFailed"
    /\ file.kind = "doc" /\ file.version # STATS_DATA_FILE_VERSION
    /\ Len(statsLog) > 0

\* a is a subsequence of b: b holds the elements of a, in the order of a
RECURSIVE IsSubSeq(_, _)
IsSubSeq(a, b) ==
    IF a = <<>> THEN TRUE
    ELSE IF b = <<>> THEN FALSE
    ELSE IF Head(a) = Head(b) THEN IsSubSeq(Tail(a), Tail(b))
    ELSE IsSubSeq(a, Tail(b))

\* C19: whatever step is taken, the entries of the log stay in it, in their
\* order, but for those the optimizer drops, a dangling BootEvent removed by
\* logServerBoot or logServerClose, and a wipe for changed boundaries; steps taken
\* while the startup load is pending are no exception.
C19_AppendOnly ==
    [][~(IsSome(lastPerfBoundaries) /\ lastPerfBoundaries' # lastPerfBoundaries)
        => IsSubSeq(OptimizeStatsLog(IF perfOp' \in {"logServerBoot", "logServerClose"}
                                        THEN WithoutDanglingBoot(statsLog)
                                        ELSE statsLog, now'),
                    statsLog')]_vars

\* C16 (1): a write that fails changes neither the log, nor a cached field, nor
\* the file, and ends in the handler of the error.
\* C16 (2): every save hands the whole current log to fsp.writeFile, so that a
\* write that succeeds leaves on disk the log as it was when that save was made.
C16_FailedWriteIsHarmless ==
    /\ [][perfOp' = "writeFailed"
            => UNCHANGED <<statsLog, lastFxsMemory, lastNodeMemory, lastPerfBoundaries,
                           lastPerfCounts, lastPerfSaved, file, loadPc, collectPc>>]_vars
    /\ [][Len(writes') > Len(writes)
            => /\ writes' = Append(writes, FileDoc(STATS_DATA_FILE_VERSION,
                                                  lastPerfBoundaries', statsLog'))
               /\ perfOp' \in {"logServerBoot", "logServerClose", "collectSaved"}]_vars
    /\ [][perfOp' = "written" => \E i \in 1..Len(writes) : file' = writes[i]]_vars

\* the write of a boot's save has just failed (nothing is on disk), and the save
\* of the cycle after it, still in progress, holds the BootEvent and the DataEvent
C16_Witness ==
    /\ perfOp = "writeFailed" /\ file.kind = "absent"
    /\ Len(statsLog) = 2
    /\ statsLog[1].type = "svBoot" /\ statsLog[2].type = "data"
    /\ writes = <<FileDoc(STATS_DATA_FILE_VERSION, lastPerfBoundaries, statsLog)>>

\* C20: after logServerBoot, logServerClose or a cycle that saved, with the write
\* done and neither the load nor a cycle pending, the log on disk is the log in
\* memory.
C20_FileMatchesLog ==
    ( /\ perfOp \in {"logServerBoot", "logServerClose", "collectSaved"}
      /\ loadPc = "done" /\ collectPc = "idle" /\ writes = <<>> )
        => file.kind = "doc" /\ file.log = statsLog

\* the log entries that are DataEvents of the last six hours with the minimum of
\* svMain ticks
QualifyingEntries ==
    { i \in 1..Len(statsLog) : /\ statsLog[i].type = "data"
                               /\ statsLog[i].ts >= now - 6 * 60 * 60 * 1000
                               /\ statsLog[i].perf.svMain.count >= PERF_DATA_MIN_TICKS }

PassingCountSamples ==
    { s \in CountSamples : /\ s.perfMetrics.svMain >= PERF_DATA_MIN_TICKS
                           /\ s.perfMetrics.svNetwork >= PERF_DATA_MIN_TICKS
                           /\ s.perfMetrics.svSync >= PERF_DATA_MIN_TICKS }

\* no data point was saved since the last reset of the perf state, a reset made
\* by the cycle that fetched s included
NothingSavedSinceReset(s) ==
    \/ lastPerfCounts = None \/ lastPerfSaved = None \/ lastPerfBoundaries = None
    \/ s.perfBoundaries # Val(lastPerfBoundaries)
    \/ s.perfMetrics.svMain < Val(lastPerfCounts).svMain
    \/ s.perfMetrics.svMain < Val(lastPerfSaved).counts.svMain

\* C17: a cycle that passes the minimum tick check pushes one DataEvent when no
\* data point was saved since the last reset of the perf state, or when the last
\* saved point is at least PERF_DATA_INITIAL_RESOLUTION old, and then with the
\* fetched counts minus the last saved counts; otherwise it pushes none.
C17_SaveGate ==
    [][\A s \in PassingCountSamples :
          CollectStatsResume(Some(s), None)
            => /\ NothingSavedSinceReset(s) => IsSome(appended')
               /\ ( /\ ~NothingSavedSinceReset(s)
                    /\ now - Val(lastPerfSaved).ts >= PERF_DATA_INITIAL_RESOLUTION )
                    => appended' = Some(DataEvent(now, PerfCountsToHist(PerfCounts(
                          s.perfMetrics.svMain - Val(lastPerfSaved).counts.svMain,
                          s.perfMetrics.svNetwork - Val(lastPerfSaved).counts.svNetwork,
                          s.perfMetrics.svSync - Val(lastPerfSaved).counts.svSync))))
               /\ ( /\ ~NothingSavedSinceReset(s)
                    /\ now - Val(lastPerfSaved).ts < PERF_DATA_INITIAL_RESOLUTION )
                    => appended' = None
               /\ statsLog' = IF appended' = None
                                 THEN statsLog
                                 ELSE OptimizeStatsLog(Append(statsLog, Val(appended')), now)]_vars

\* a cycle pushed the ticks made since the last saved point, later than the start
C17_Witness ==
    /\ perfOp = "collectSaved" /\ IsSome(appended)
    /\ Val(appended).ts > StartMs
    /\ Val(appended).perf.svMain.count = 1
    /\ Val(lastPerfSaved).counts.svMain = MaxCount

\* C18: a cycle that passes the minimum tick check leaves lastPerfCounts at the
\* fetched counts whether it pushes a DataEvent or not, and when it pushes none
\* it changes neither the log nor lastPerfSaved.
C18_FullSampleAlwaysCached ==
    [][\A s \in PassingCountSamples :
          CollectStatsResume(Some(s), None)
            => /\ lastPerfCounts' = Some(s.perfMetrics)
               /\ perfOp' \in {"collectGated", "collectSaved"}
               /\ appended' = None <=> perfOp' = "collectGated"
               /\ perfOp' = "collectGated"
                    => UNCHANGED <<statsLog, lastPerfSaved, file, writes>>]_vars

\* a gated cycle moved the last full sample past the last saved one
C18_Witness ==
    /\ perfOp = "collectGated"
    /\ IsSome(lastPerfSaved) /\ IsSome(lastPerfCounts)
    /\ Val(lastPerfCounts) # Val(lastPerfSaved).counts
    /\ Len(statsLog) > 0

\* C21 (1): at every await and between handlers, when lastPerfSaved is defined
\* lastPerfCounts is defined too and its svMain count is no lower than the one
\* of lastPerfSaved.
\* C21 (2): no cycle takes the branch of the counter reset check that resets
\* lastPerfSaved alone (a fetched svMain count below the last saved count and not
\* below the last full sample's).
C21_SavedNeverAheadOfCounts ==
    /\ [](IsSome(lastPerfSaved)
            => /\ IsSome(lastPerfCounts)
               /\ Val(lastPerfSaved).counts.svMain <= Val(lastPerfCounts).svMain)
    /\ [][\A s \in PassingCountSamples :
            CollectStatsResume(Some(s), None)
              => ~( /\ IsSome(lastPerfCounts) /\ IsSome(lastPerfSaved)
                    /\ IsSome(lastPerfBoundaries)
                    /\ s.perfBoundaries = Val(lastPerfBoundaries)
                    /\ s.perfMetrics.svMain >= Val(lastPerfCounts).svMain
                    /\ s.perfMetrics.svMain < Val(lastPerfSaved).counts.svMain )]_vars

\* the counter went down and both samples were reset (the log ends with the full
\* counts of the restarted counter after those of the old one), then a gated
\* cycle moved the last full sample past the last saved one
C21_Witness ==
    /\ perfOp = "collectGated"
    /\ Len(statsLog) >= 2
    /\ statsLog[Len(statsLog) - 1].type = "data"
    /\ statsLog[Len(statsLog) - 1].perf.svMain.count = MaxCount
    /\ Last(statsLog).type = "data"
    /\ Last(statsLog).perf.svMain.count = MaxCount - 1
    /\ Val(lastPerfSaved).counts.svMain = MaxCount - 1
    /\ Val(lastPerfCounts).svMain = MaxCount

\* C22: the svMain counts of the DataEvents pushed since the perf state was last
\* reset (by a boot, a close, the load, changed boundaries or a counter that
\* went down) add up to the svMain count of the last saved sample, and to
\* nothing while no sample is saved.
C22_SeriesAddsUpToLastSaved ==
    seriesTicks = IF IsSome(lastPerfSaved) THEN Val(lastPerfSaved).counts.svMain ELSE 0

\* the second DataEvent of a series was pushed one clock step after the first,
\* with the one tick that the first did not count
C22_Witness ==
    /\ perfOp = "collectSaved"
    /\ Val(appended).ts = StartMs + StepMs
    /\ Val(appended).perf.svMain.count = 1
    /\ seriesTicks = Val(appended).perf.svMain.count + (MaxCount - 1)
    /\ Val(lastPerfSaved).counts.svMain = MaxCount

\* C23: the step taken next after a logServerClose call pushes no DataEvent
\* behind the CloseEvent and, unless it is a logServerBoot call, leaves
\* lastPerfCounts and lastPerfSaved undefined.
C23_NoDataForClosedServer ==
    [][perfOp = "logServerClose"
        => /\ ~( /\ Len(statsLog) > 0
                 /\ Last(statsLog).type = "svClose"
                 /\ IsSome(appended') )
           /\ perfOp' # "logServerBoot"
                => lastPerfCounts' = None /\ lastPerfSaved' = None]_vars

====
